---- MODULE Spec2Model ----
(***************************************************************************)
(* The work-order and customer request handlers of the auto-repair CRM     *)
(* (src/server/controllers/workOrderController.js, customerController.js)  *)
(* over their three collections: work orders, vehicles and customers.      *)
(* One action is one request handled from its first read to its response.  *)
(***************************************************************************)
EXTENDS Integers, Sequences, FiniteSets, TLC

VARIABLES
  workOrders,   \* the WorkOrder collection: id -> document
  vehicles,     \* the Vehicle collection: id -> document
  customers,    \* the Customer collection: id -> document
  nextWo,       \* the next fresh work-order id
  nextCust,     \* the next fresh customer id
  last,         \* the last request: handler, id, body, response code, SMS call
  pending       \* the requests in flight: slot -> request

vars == <<workOrders, vehicles, customers, nextWo, nextCust, last, pending>>

-----------------------------------------------------------------------------
(* Bounds of the model. *)

MaxWorkOrders == 1
MaxCustomers == 3
MaxLines == 1
MaxInFlight == 2

-----------------------------------------------------------------------------
(* JavaScript values. A field that may be missing from a body or a document *)
(* is a sequence: <<>> when missing, <<x>> when present with value x.       *)

Absent == <<>>
Some(x) == <<x>>
Has(o) == o /= <<>>
Val(o) == o[1]

\* !x on a number-valued field: undefined and 0 are falsy.
TruthyNum(o) == Has(o) /\ Val(o) /= 0

\* A string is its sequence of characters; "" is falsy.
TruthyStr(o) == Has(o) /\ Val(o) /= <<>>

\* An id that names no document (a well-formed ObjectId never allocated).
NoId == 0

Put(store, id, doc) ==
  [x \in DOMAIN store \cup {id} |-> IF x = id THEN doc ELSE store[x]]

Remove(store, id) == [x \in DOMAIN store \ {id} |-> store[x]]

-----------------------------------------------------------------------------
(* Strings: String.prototype.trim, split('\n'), includes('\n'), join('\n'). *)

NL == "\n"
SP == " "

RECURSIVE TrimLeft(_)
TrimLeft(s) ==
  IF s /= <<>> /\ Head(s) \in {SP, NL} THEN TrimLeft(Tail(s)) ELSE s

RECURSIVE TrimRight(_)
TrimRight(s) ==
  IF s /= <<>> /\ s[Len(s)] \in {SP, NL}
  THEN TrimRight(SubSeq(s, 1, Len(s) - 1))
  ELSE s

Trim(s) == TrimRight(TrimLeft(s))

IncludesNL(s) == \E i \in 1..Len(s) : s[i] = NL

\* s.split('\n'): the pieces between newlines, empty pieces included.
RECURSIVE SplitNL(_, _)
SplitNL(s, cur) ==
  IF s = <<>> THEN <<cur>>
  ELSE IF Head(s) = NL THEN <<cur>> \o SplitNL(Tail(s), <<>>)
  ELSE SplitNL(Tail(s), Append(cur, Head(s)))

\* descriptions.join('\n')
RECURSIVE JoinNL(_)
JoinNL(lines) ==
  IF lines = <<>> THEN <<>>
  ELSE IF Len(lines) = 1 THEN lines[1]
  ELSE lines[1] \o <<NL>> \o JoinNL(Tail(lines))

\* .filter(line => line.trim()).map(line => ({ description: line.trim() }))
RECURSIVE NonBlankTrimmed(_)
NonBlankTrimmed(lines) ==
  IF lines = <<>> THEN <<>>
  ELSE IF Trim(Head(lines)) = <<>> THEN NonBlankTrimmed(Tail(lines))
  ELSE <<Trim(Head(lines))>> \o NonBlankTrimmed(Tail(lines))

\* serviceRequested converted to a services array (a sequence of descriptions).
ServicesFromRequested(s) ==
  IF IncludesNL(s) THEN NonBlankTrimmed(SplitNL(s, <<>>)) ELSE <<s>>

-----------------------------------------------------------------------------
(* parseFloat on the currentMileage of a body, which is a number            *)
(* <<"num", n>> or a string <<"str", chars>>. Leading white space is        *)
(* skipped and the longest prefix of digits is read; no digit gives NaN,    *)
(* which is Absent here. Signs, fractions and exponents are not modelled.   *)

Digits == <<"0", "1", "2", "3", "4", "5", "6", "7", "8", "9">>

IsDigit(c) == \E i \in 1..Len(Digits) : Digits[i] = c

DigitVal(c) == (CHOOSE i \in 1..Len(Digits) : Digits[i] = c) - 1

RECURSIVE DigitPrefix(_, _, _)
DigitPrefix(s, acc, seen) ==
  IF s /= <<>> /\ IsDigit(Head(s))
  THEN DigitPrefix(Tail(s), acc * 10 + DigitVal(Head(s)), TRUE)
  ELSE IF seen THEN Some(acc) ELSE Absent

ParseFloat(m) ==
  IF m[1] = "num" THEN Some(m[2]) ELSE DigitPrefix(TrimLeft(m[2]), 0, FALSE)

\* workOrderData.currentMileage && !isNaN(parseFloat(workOrderData.currentMileage))
MileageGiven(o) ==
  /\ Has(o)
  /\ IF Val(o)[1] = "num" THEN Val(o)[2] /= 0 ELSE Val(o)[2] /= <<>>
  /\ Has(ParseFloat(Val(o)))

-----------------------------------------------------------------------------
(* Costs. *)

RECURSIVE PartsCost(_)
PartsCost(parts) ==
  IF parts = <<>> THEN 0
  ELSE Head(parts).price * Head(parts).quantity + PartsCost(Tail(parts))

RECURSIVE LaborCost(_)
LaborCost(labor) ==
  IF labor = <<>> THEN 0
  ELSE Head(labor).hours * Head(labor).rate + LaborCost(Tail(labor))

-----------------------------------------------------------------------------
(* Statuses. *)

\* The statuses the client offers (WorkOrderDetail.jsx, statusOptions).
StatusOptions ==
  {"Created", "Scheduled", "In Progress", "Inspected - Need Parts Ordered",
   "Parts Ordered", "Parts Received", "Repair In Progress",
   "Completed - Need Payment", "Completed - Paid", "Invoiced", "On Hold",
   "Cancelled"}

\* updateWorkOrder's notifiableStatuses.
NotifiableStatuses ==
  {"Inspected - Need Parts Ordered", "Parts Received", "Repair In Progress",
   "Completed - Need Payment", "Completed - Paid"}

\* Variant: only 'Completed - Paid' sets the actual total.
SetsTotalActual_PaidOnly(status) == status = "Completed - Paid"

\* updateStatus: status === 'Completed - Paid' || status === 'Invoiced'
SetsTotalActual(status) == status \in {"Completed - Paid", "Invoiced"}

-----------------------------------------------------------------------------
(* What the schemas, which are not part of the sources, are taken to do.   *)

\* A new work order without a status is 'Created' (the form's initial value).
DefaultStatus == "Created"

\* A total that was never set reads as 0.
DefaultTotal == 0

\* A write the schema validators reject is answered as a validation failure.
ValidationErrorCode == 400

\* The appointments (the Appointment collection is not written by these
\* handlers): appointment 1 has technician 7, appointment 2 has none.
Appointments == [a \in {1, 2} |-> IF a = 1 THEN Some(7) ELSE Absent]

-----------------------------------------------------------------------------
(* Request bodies. *)

EmptyBody ==
  [customer |-> Absent, vehicle |-> Absent, status |-> Absent,
   services |-> Absent, serviceRequested |-> Absent,
   parts |-> Absent, labor |-> Absent,
   totalEstimate |-> Absent, totalActual |-> Absent,
   currentMileage |-> Absent, date |-> Absent,
   appointmentId |-> Absent, assignedTechnician |-> Absent,
   valid |-> TRUE]

EmptyCustomerBody ==
  [communicationPreference |-> Absent, phone |-> Absent, valid |-> TRUE]

\* data: the work order the response carries; steps: the effects the request
\* had, in the order it had them.
Response(op, id, body, code, sms) ==
  [op |-> op, id |-> id, body |-> body, code |-> code, sms |-> sms,
   data |-> Absent, steps |-> <<>>]

\* The SMS call of a request: not made, made, or made and thrown.
SmsCall(called, smsOk) ==
  IF called THEN IF smsOk THEN "sent" ELSE "threw" ELSE "none"

\* Variant: the catch block passes the error on.
AfterSms_Rethrown(code, sms) == IF sms = "threw" THEN 500 ELSE code

\* catch (err) { console.error(...) }: a thrown SMS call leaves the response
\* of the request as it was.
AfterSms(code, sms) == code

-----------------------------------------------------------------------------
(* createWorkOrder *)

\* Lines 106-133: the services array of the new work order.
CreateServices(body) ==
  IF ~Has(body.services) \/ Val(body.services) = <<>>
  THEN IF TruthyStr(body.serviceRequested)
       THEN ServicesFromRequested(Val(body.serviceRequested))
       ELSE <<>>
  ELSE Val(body.services)

\* Lines 135-140: serviceRequested is regenerated from a non-empty array.
CreateRequested(body) ==
  IF CreateServices(body) /= <<>>
  THEN Some(JoinNL(CreateServices(body)))
  ELSE body.serviceRequested

\* Lines 143-151: the estimate after the parts block.
CreateEstimateAfterParts(body) ==
  IF Has(body.parts) /\ Val(body.parts) /= <<>> /\ ~TruthyNum(body.totalEstimate)
  THEN Some(PartsCost(Val(body.parts)))
  ELSE body.totalEstimate

\* Lines 153-161: the estimate after the labor block.
CreateEstimate(body) ==
  LET e == CreateEstimateAfterParts(body) IN
  IF Has(body.labor) /\ Val(body.labor) /= <<>> /\ ~TruthyNum(e)
  THEN Some((IF TruthyNum(e) THEN Val(e) ELSE 0) + LaborCost(Val(body.labor)))
  ELSE e

OrElse(o, d) == IF Has(o) THEN Val(o) ELSE d

\* WorkOrder.create(workOrderData): the stored document.
NewWorkOrder(body, now) ==
  [customer |-> Val(body.customer),
   vehicle |-> Val(body.vehicle),
   status |-> OrElse(body.status, DefaultStatus),
   services |-> CreateServices(body),
   serviceRequested |-> CreateRequested(body),
   parts |-> OrElse(body.parts, <<>>),
   labor |-> OrElse(body.labor, <<>>),
   totalEstimate |-> OrElse(CreateEstimate(body), DefaultTotal),
   totalActual |-> OrElse(body.totalActual, DefaultTotal),
   date |-> OrElse(body.date, now),
   appointmentId |-> body.appointmentId,
   assignedTechnician |-> body.assignedTechnician]

\* Lines 165-179: the vehicle after the new work order is recorded on it.
VehicleAfterCreate(v, id, body, now) ==
  LET withService == [v EXCEPT !.serviceHistory = Append(@, id)] IN
  IF MileageGiven(body.currentMileage)
  THEN [withService EXCEPT
          !.mileageHistory =
             Append(@, [date |-> OrElse(body.date, now),
                        mileage |-> Val(ParseFloat(Val(body.currentMileage))),
                        source |-> id]),
          !.currentMileage = Val(ParseFloat(Val(body.currentMileage)))]
  ELSE withService

\* Variant: the owner of the vehicle is not compared with the customer.
CreateWorkOrderCode_NoOwnerCheck(body) ==
  IF ~Has(body.vehicle) \/ Val(body.vehicle) \notin DOMAIN vehicles THEN 404
  ELSE IF ~Has(body.customer) \/ Val(body.customer) \notin DOMAIN customers THEN 404
  ELSE IF ~body.valid THEN ValidationErrorCode
  ELSE 201

CreateWorkOrderCode(body) ==
  IF ~Has(body.vehicle) \/ Val(body.vehicle) \notin DOMAIN vehicles THEN 404
  ELSE IF ~Has(body.customer) \/ Val(body.customer) \notin DOMAIN customers THEN 404
  ELSE IF vehicles[Val(body.vehicle)].customer /= Val(body.customer) THEN 400
  ELSE IF ~body.valid THEN ValidationErrorCode
  ELSE 201

CreateWorkOrder(body, now) ==
  /\ nextWo <= MaxWorkOrders
  /\ LET code == CreateWorkOrderCode(body) IN
     IF code = 201
     THEN /\ workOrders' = Put(workOrders, nextWo, NewWorkOrder(body, now))
          /\ vehicles' = [vehicles EXCEPT ![Val(body.vehicle)] =
                            VehicleAfterCreate(@, nextWo, body, now)]
          /\ nextWo' = nextWo + 1
          /\ last' = [Response("createWorkOrder", nextWo, body, 201, "none")
                        EXCEPT !.data = Some(NewWorkOrder(body, now))]
          /\ UNCHANGED <<customers, nextCust, pending>>
     ELSE /\ last' = Response("createWorkOrder", NoId, body, code, "none")
          /\ UNCHANGED <<workOrders, vehicles, customers, nextWo, nextCust, pending>>

-----------------------------------------------------------------------------
(* updateWorkOrder *)

\* Lines 196-221: the services written by the update, when it writes any.
UpdateServices(body) ==
  IF Has(body.services) THEN body.services
  ELSE IF TruthyStr(body.serviceRequested)
       THEN Some(ServicesFromRequested(Val(body.serviceRequested)))
       ELSE Absent

\* Lines 207-210: serviceRequested is regenerated only from a services array.
UpdateRequested(body) ==
  IF Has(body.services) THEN Some(JoinNL(Val(body.services)))
  ELSE body.serviceRequested

\* Lines 231-249: the estimate after the parts block.
UpdateEstimateAfterParts(body, stored) ==
  IF Has(body.parts) /\ ~TruthyNum(body.totalEstimate)
  THEN Some(PartsCost(Val(body.parts))
            + LaborCost(IF Has(body.labor) THEN Val(body.labor) ELSE stored.labor))
  ELSE body.totalEstimate

\* Variant: the labor block takes no account of the parts.
UpdateEstimate_LaborAlone(body, stored) ==
  LET e == UpdateEstimateAfterParts(body, stored) IN
  IF Has(body.labor) /\ ~Has(body.parts)
  THEN Some(LaborCost(Val(body.labor)))
  ELSE e

\* Lines 251-269: the estimate after the labor block.
UpdateEstimate(body, stored) ==
  LET e == UpdateEstimateAfterParts(body, stored) IN
  IF Has(body.labor) /\ ~TruthyNum(e)
  THEN Some(PartsCost(IF Has(body.parts) THEN Val(body.parts) ELSE stored.parts)
            + LaborCost(Val(body.labor)))
  ELSE e

\* Lines 224-229: parts or labor submitted for a work order that is not there.
UpdateEarlyNotFound(id, body) ==
  (Has(body.parts) \/ Has(body.labor)) /\ id \notin DOMAIN workOrders

\* Lines 281-285: the entry a re-save would duplicate.
ExistingMileageEntry(v, id, mileage, day) ==
  \E i \in 1..Len(v.mileageHistory) :
    /\ v.mileageHistory[i].mileage = mileage
    /\ v.mileageHistory[i].date = day
    /\ v.mileageHistory[i].source = id

\* Lines 279-295: the vehicle after the mileage of the update is recorded.
VehicleAfterUpdate(v, id, body, now) ==
  LET mileage == Val(ParseFloat(Val(body.currentMileage)))
      day == OrElse(body.date, now)
  IN [v EXCEPT
        !.mileageHistory =
           IF ExistingMileageEntry(v, id, mileage, day) THEN @
           ELSE Append(@, [date |-> day, mileage |-> mileage, source |-> id]),
        !.currentMileage = mileage]

\* Variant: the mileage is recorded on another vehicle.
MileageVehicle_Other(id, body) == IF workOrders[id].vehicle = 1 THEN 2 ELSE 1

\* Lines 276-278: the vehicle of the stored work order.
MileageVehicle(id, body) == workOrders[id].vehicle

\* Lines 274-279: the update records a mileage on that vehicle.
UpdateTouchesVehicle(id, body) ==
  /\ MileageGiven(body.currentMileage)
  /\ id \in DOMAIN workOrders
  /\ MileageVehicle(id, body) \in DOMAIN vehicles

\* Lines 301-322: the update calls twilioService.sendStatusUpdate.
UpdateNotifies(id, body) ==
  /\ Has(body.status) /\ Val(body.status) /= ""
  /\ id \in DOMAIN workOrders
  /\ workOrders[id].status /= Val(body.status)
  /\ Val(body.status) \in NotifiableStatuses
  /\ workOrders[id].customer \in DOMAIN customers
  /\ workOrders[id].vehicle \in DOMAIN vehicles
  /\ customers[workOrders[id].customer].communicationPreference = "SMS"
  /\ customers[workOrders[id].customer].phone /= ""

\* Variant: the appointment is not consulted.
UpdateTechnician_Submitted(body) == body.assignedTechnician

\* Lines 353-358: the technician of the appointment overrides the submitted one.
UpdateTechnician(body) ==
  IF /\ TruthyNum(body.appointmentId)
     /\ Val(body.appointmentId) \in DOMAIN Appointments
     /\ Has(Appointments[Val(body.appointmentId)])
  THEN Appointments[Val(body.appointmentId)]
  ELSE body.assignedTechnician

\* The paths findByIdAndUpdate(id, workOrderData) sets on the stored document.
UpdatedWorkOrder(doc, body) ==
  [doc EXCEPT
     !.customer = OrElse(body.customer, @),
     !.vehicle = OrElse(body.vehicle, @),
     !.status = OrElse(body.status, @),
     !.services = OrElse(UpdateServices(body), @),
     !.serviceRequested =
        IF Has(UpdateRequested(body)) THEN UpdateRequested(body) ELSE @,
     !.parts = OrElse(body.parts, @),
     !.labor = OrElse(body.labor, @),
     !.totalEstimate =
        OrElse(IF Has(body.parts) \/ Has(body.labor)
               THEN UpdateEstimate(body, doc)
               ELSE body.totalEstimate, @),
     !.totalActual = OrElse(body.totalActual, @),
     !.date = OrElse(body.date, @),
     !.appointmentId = IF Has(body.appointmentId) THEN body.appointmentId ELSE @,
     !.assignedTechnician =
        IF Has(UpdateTechnician(body)) THEN UpdateTechnician(body) ELSE @]

\* Update validators run before the document is looked up.
UpdateWorkOrderCode(id, body) ==
  IF UpdateEarlyNotFound(id, body) THEN 404
  ELSE IF ~body.valid THEN ValidationErrorCode
  ELSE IF id \notin DOMAIN workOrders THEN 404
  ELSE 200

UpdateWorkOrder(id, body, now, smsOk) ==
  LET early == UpdateEarlyNotFound(id, body)
      sms == SmsCall(~early /\ UpdateNotifies(id, body), smsOk)
      code == AfterSms(UpdateWorkOrderCode(id, body), sms)
  IN /\ vehicles' =
          IF ~early /\ UpdateTouchesVehicle(id, body)
          THEN [vehicles EXCEPT ![MileageVehicle(id, body)] =
                  VehicleAfterUpdate(@, id, body, now)]
          ELSE vehicles
     /\ workOrders' =
          IF code = 200
          THEN [workOrders EXCEPT ![id] = UpdatedWorkOrder(@, body)]
          ELSE workOrders
     /\ last' = Response("updateWorkOrder", id, body, code, sms)
     /\ UNCHANGED <<customers, nextWo, nextCust, pending>>

-----------------------------------------------------------------------------
(* deleteWorkOrder, getWorkOrder, generateInvoice *)

\* $pull: { serviceHistory: id }
Pull(history, id) == SelectSeq(history, LAMBDA x : x /= id)

DeleteWorkOrder(id) ==
  IF id \notin DOMAIN workOrders
  THEN /\ last' = Response("deleteWorkOrder", id, EmptyBody, 404, "none")
       /\ UNCHANGED <<workOrders, vehicles, customers, nextWo, nextCust, pending>>
  ELSE /\ vehicles' =
            IF workOrders[id].vehicle \in DOMAIN vehicles
            THEN [vehicles EXCEPT ![workOrders[id].vehicle].serviceHistory =
                    Pull(@, id)]
            ELSE vehicles
       /\ workOrders' = Remove(workOrders, id)
       /\ last' = Response("deleteWorkOrder", id, EmptyBody, 204, "none")
       /\ UNCHANGED <<customers, nextWo, nextCust, pending>>

\* Variant: populate resolves no reference.
Populated_Null(ref, collection) == Absent

\* populate(path): the referenced document, null when there is none.
Populated(ref, collection) ==
  IF ref \in DOMAIN collection THEN Some(ref) ELSE Absent

\* Lines 52-63: the work order with its customer and vehicle populated.
FoundWorkOrder(id) ==
  [workOrders[id] EXCEPT !.customer = Populated(@, customers),
                         !.vehicle = Populated(@, vehicles)]

\* A read of one work order: getWorkOrder and generateInvoice.
ReadWorkOrder(op, id) ==
  /\ last' = [Response(op, id, EmptyBody,
                       IF id \in DOMAIN workOrders THEN 200 ELSE 404, "none")
                EXCEPT !.data = IF op = "getWorkOrder" /\ id \in DOMAIN workOrders
                                THEN Some(FoundWorkOrder(id)) ELSE Absent]
  /\ UNCHANGED <<workOrders, vehicles, customers, nextWo, nextCust, pending>>

GetWorkOrder(id) == ReadWorkOrder("getWorkOrder", id)

GenerateInvoice(id) == ReadWorkOrder("generateInvoice", id)

-----------------------------------------------------------------------------
(* updateStatus *)

\* Lines 440-455: the document that is saved.
WithStatus(doc, status) ==
  [doc EXCEPT
     !.status = status,
     !.totalActual =
        IF SetsTotalActual(status)
        THEN PartsCost(doc.parts) + LaborCost(doc.labor)
        ELSE @]

\* Variant: the customer is populated with every field.
PopulatedCustomer_Full(c) ==
  [phone |-> Some(customers[c].phone),
   communicationPreference |-> Some(customers[c].communicationPreference)]

\* Lines 460-461: populate('customer', 'name phone email') loads the customer
\* with these fields only; communicationPreference is undefined on it.
PopulatedCustomer(c) ==
  [phone |-> Some(customers[c].phone), communicationPreference |-> Absent]

\* Lines 474-479: the populated customer is to be sent an SMS.
StatusNotifies(doc) ==
  /\ doc.customer \in DOMAIN customers
  /\ LET customer == PopulatedCustomer(doc.customer) IN
     /\ customer.communicationPreference /= Some("None")
     /\ customer.communicationPreference = Some("SMS")
     /\ customer.phone /= Some("")

UpdateStatusCode(id, body) ==
  IF ~Has(body.status) \/ Val(body.status) = "" THEN 400
  ELSE IF id \notin DOMAIN workOrders THEN 404
  ELSE IF ~body.valid THEN ValidationErrorCode
  ELSE 200

UpdateStatus(id, body, smsOk) ==
  LET code == UpdateStatusCode(id, body) IN
  IF code = 200
  THEN LET sms == SmsCall(StatusNotifies(workOrders[id]), smsOk) IN
       /\ workOrders' =
            [workOrders EXCEPT ![id] = WithStatus(@, Val(body.status))]
       /\ last' = Response("updateStatus", id, body, AfterSms(200, sms), sms)
       /\ UNCHANGED <<vehicles, customers, nextWo, nextCust, pending>>
  ELSE /\ last' = Response("updateStatus", id, body, code, "none")
       /\ UNCHANGED <<workOrders, vehicles, customers, nextWo, nextCust, pending>>

-----------------------------------------------------------------------------
(* addPart, addLabor *)

\* Lines 513-524: the part is pushed and the estimate recomputed.
WithPart(doc, part) ==
  LET parts == Append(doc.parts, part) IN
  [doc EXCEPT !.parts = parts,
              !.totalEstimate = PartsCost(parts) + LaborCost(doc.labor)]

\* Lines 559-570: the labor line is pushed and the estimate recomputed.
WithLabor(doc, line) ==
  LET labor == Append(doc.labor, line) IN
  [doc EXCEPT !.labor = labor,
              !.totalEstimate = PartsCost(doc.parts) + LaborCost(labor)]

AddLine(op, id, body, doc) ==
  IF id \notin DOMAIN workOrders
  THEN /\ last' = Response(op, id, body, 404, "none")
       /\ UNCHANGED <<workOrders, vehicles, customers, nextWo, nextCust, pending>>
  ELSE IF ~body.valid
  THEN /\ last' = Response(op, id, body, ValidationErrorCode, "none")
       /\ UNCHANGED <<workOrders, vehicles, customers, nextWo, nextCust, pending>>
  ELSE /\ workOrders' = [workOrders EXCEPT ![id] = doc]
       /\ last' = Response(op, id, body, 200, "none")
       /\ UNCHANGED <<vehicles, customers, nextWo, nextCust, pending>>

AddPart(id, part, valid) ==
  /\ id \in DOMAIN workOrders => Len(workOrders[id].parts) < MaxLines
  /\ AddLine("addPart", id,
             [EmptyBody EXCEPT !.parts = Some(<<part>>), !.valid = valid],
             IF id \in DOMAIN workOrders
             THEN WithPart(workOrders[id], part) ELSE <<>>)

AddLabor(id, line, valid) ==
  /\ id \in DOMAIN workOrders => Len(workOrders[id].labor) < MaxLines
  /\ AddLine("addLabor", id,
             [EmptyBody EXCEPT !.labor = Some(<<line>>), !.valid = valid],
             IF id \in DOMAIN workOrders
             THEN WithLabor(workOrders[id], line) ELSE <<>>)

-----------------------------------------------------------------------------
(* customerController.js *)

\* A read of one customer: getCustomer and getCustomerVehicles.
ReadCustomer(op, id) ==
  /\ last' = Response(op, id, EmptyBody,
                      IF id \in DOMAIN customers THEN 200 ELSE 404, "none")
  /\ UNCHANGED <<workOrders, vehicles, customers, nextWo, nextCust, pending>>

GetCustomer(id) == ReadCustomer("getCustomer", id)

GetCustomerVehicles(id) == ReadCustomer("getCustomerVehicles", id)

CreateCustomer(cbody) ==
  /\ nextCust <= MaxCustomers
  /\ IF cbody.valid
     THEN /\ customers' = Put(customers, nextCust,
                 [communicationPreference |-> Val(cbody.communicationPreference),
                  phone |-> Val(cbody.phone)])
          /\ nextCust' = nextCust + 1
          /\ last' = Response("createCustomer", nextCust, EmptyBody, 201, "none")
          /\ UNCHANGED <<workOrders, vehicles, nextWo, pending>>
     ELSE /\ last' = Response("createCustomer", NoId, EmptyBody,
                              ValidationErrorCode, "none")
          /\ UNCHANGED <<workOrders, vehicles, customers, nextWo, nextCust, pending>>

UpdatedCustomer(doc, cbody) ==
  [doc EXCEPT
     !.communicationPreference = OrElse(cbody.communicationPreference, @),
     !.phone = OrElse(cbody.phone, @)]

\* Update validators run before the document is looked up.
UpdateCustomerCode(id, cbody) ==
  IF ~cbody.valid THEN ValidationErrorCode
  ELSE IF id \notin DOMAIN customers THEN 404
  ELSE 200

UpdateCustomer(id, cbody) ==
  LET code == UpdateCustomerCode(id, cbody) IN
  /\ customers' =
       IF code = 200
       THEN [customers EXCEPT ![id] = UpdatedCustomer(@, cbody)]
       ELSE customers
  /\ last' = Response("updateCustomer", id, EmptyBody, code, "none")
  /\ UNCHANGED <<workOrders, vehicles, nextWo, nextCust, pending>>

\* Variant: the vehicles of the customer are not counted.
VehicleCount_None(id) == 0

\* Vehicle.countDocuments({ customer: id })
VehicleCount(id) == Cardinality({v \in DOMAIN vehicles : vehicles[v].customer = id})

\* Variant: the customer is not looked up first.
DeleteCustomerCode_NoLookup(id) ==
  IF VehicleCount(id) > 0 THEN 400 ELSE 204

DeleteCustomerCode(id) ==
  IF id \notin DOMAIN customers THEN 404
  ELSE IF VehicleCount(id) > 0 THEN 400
  ELSE 204

DeleteCustomer(id) ==
  LET code == DeleteCustomerCode(id) IN
  /\ customers' = IF code = 204 THEN Remove(customers, id) ELSE customers
  /\ last' = Response("deleteCustomer", id, EmptyBody, code, "none")
  /\ UNCHANGED <<workOrders, vehicles, nextWo, nextCust, pending>>

-----------------------------------------------------------------------------
(* The initial database and the requests the clients send. *)

Customer(preference, phone) ==
  [communicationPreference |-> preference, phone |-> phone]

Vehicle(owner, mileage) ==
  [customer |-> owner, serviceHistory |-> <<>>, mileageHistory |-> <<>>,
   currentMileage |-> mileage]

\* Customers 1 and 2 each own one vehicle.
Init ==
  /\ workOrders = <<>>
  /\ vehicles = <<Vehicle(1, 5), Vehicle(2, 5)>>
  /\ customers = <<Customer("SMS", "555"), Customer("None", "555")>>
  /\ nextWo = 1
  /\ nextCust = 3
  /\ last = Response("init", NoId, EmptyBody, 0, "none")
  /\ pending = <<>>

\* The ids a request may name: every id that can be allocated, and one more.
WoIds == 1..(MaxWorkOrders + 1)
CustIds == 1..(MaxCustomers + 1)
VehIds == 1..3

PartLine == [price |-> 2, quantity |-> 3]
LaborLine == [hours |-> 2, rate |-> 5]

\* parts or labor of a body: missing, empty, or up to MaxLines lines.
LinesOf(line) ==
  {Absent} \cup {Some([i \in 1..n |-> line]) : n \in 0..MaxLines}

ForOwner(body) == [body EXCEPT !.customer = Some(1), !.vehicle = Some(1)]

-----------------------------------------------------------------------------
(* Totals: requests that differ in parts and labor and leave totalEstimate  *)
(* to the server.                                                           *)

TotalsBodies ==
  {[EmptyBody EXCEPT !.parts = p, !.labor = l] :
     p \in LinesOf(PartLine), l \in LinesOf(LaborLine)}

TotalsStatuses == {"Repair In Progress", "Completed - Paid"}

NextTotals ==
  \/ \E body \in TotalsBodies : CreateWorkOrder(ForOwner(body), 1)
  \/ \E id \in WoIds, body \in TotalsBodies : UpdateWorkOrder(id, body, 1, TRUE)
  \/ \E id \in WoIds : AddPart(id, PartLine, TRUE)
  \/ \E id \in WoIds : AddLabor(id, LaborLine, TRUE)
  \/ \E id \in WoIds, st \in TotalsStatuses :
       UpdateStatus(id, [EmptyBody EXCEPT !.status = Some(st)], TRUE)

SpecTotals == Init /\ [][NextTotals]_vars

\* C1: after any sequence of successful createWorkOrder, updateWorkOrder,
\* addPart, addLabor and updateStatus requests, the stored totalEstimate of
\* every work order is the cost of its parts plus the cost of its labor.
C1_TotalEstimateIsSum ==
  \A id \in DOMAIN workOrders :
    workOrders[id].totalEstimate =
      PartsCost(workOrders[id].parts) + LaborCost(workOrders[id].labor)

-----------------------------------------------------------------------------
(* Notifications: requests that differ in status, with one more field       *)
(* (date) and a vehicle reference that no vehicle answers to; the SMS       *)
(* service answers or throws; the customer changes preference and phone.    *)

NotifyStatuses == {"Created", "Repair In Progress", "Invoiced"}

NotifyBodies ==
  {[EmptyBody EXCEPT !.status = st, !.date = d, !.vehicle = v] :
     st \in {Absent} \cup {Some(x) : x \in NotifyStatuses},
     d \in {Absent, Some(2)},
     v \in {Absent, Some(3)}}

NotifyCustomerBodies ==
  {[EmptyCustomerBody EXCEPT !.communicationPreference = Some(pref),
                            !.phone = Some(phone)] :
     pref \in {"SMS", "Email", "None"}, phone \in {"", "555"}}

NextNotify ==
  \/ CreateWorkOrder(ForOwner(EmptyBody), 1)
  \/ \E id \in WoIds, st \in NotifyStatuses, smsOk \in BOOLEAN :
       UpdateStatus(id, [EmptyBody EXCEPT !.status = Some(st)], smsOk)
  \/ \E id \in WoIds, body \in NotifyBodies, smsOk \in BOOLEAN :
       UpdateWorkOrder(id, body, 1, smsOk)
  \/ \E cbody \in NotifyCustomerBodies : UpdateCustomer(1, cbody)

SpecNotify == Init /\ [][NextNotify]_vars

\* The customer is one the handlers send an SMS to.
SmsCustomer(c) ==
  /\ c \in DOMAIN customers
  /\ customers[c].communicationPreference = "SMS"
  /\ customers[c].phone /= ""

\* The step is a successful request of handler op that changes the stored
\* status of its work order.
StatusChangedBy(op) ==
  /\ last'.op = op
  /\ last'.code = 200
  /\ last'.id \in DOMAIN workOrders
  /\ workOrders'[last'.id].status /= workOrders[last'.id].status

\* The step is a request of handler op that submits the stored status.
StatusResubmittedBy(op) ==
  /\ last'.op = op
  /\ last'.id \in DOMAIN workOrders
  /\ Has(last'.body.status)
  /\ Val(last'.body.status) = workOrders[last'.id].status

\* C2: when the SMS call of updateStatus or updateWorkOrder throws, the
\* request still answers 200 and the submitted status and the other
\* submitted fields are stored.
C2_SmsFailureKeepsWrite ==
  last.sms = "threw" =>
    /\ last.op \in {"updateStatus", "updateWorkOrder"}
    /\ last.code = 200
    /\ last.id \in DOMAIN workOrders
    /\ workOrders[last.id].status = Val(last.body.status)
    /\ Has(last.body.date) => workOrders[last.id].date = Val(last.body.date)
    /\ Has(last.body.vehicle) =>
         workOrders[last.id].vehicle = Val(last.body.vehicle)

C2_Witness ==
  /\ last.sms = "threw"
  /\ last.op = "updateWorkOrder"
  /\ Has(last.body.date)

\* C3: every request that changes the stored status of a work
\* order whose customer prefers SMS and has a phone calls the SMS service,
\* whatever the new status is.
C3_NotifiedWhateverStatus ==
  [][(/\ StatusChangedBy("updateStatus") \/ StatusChangedBy("updateWorkOrder")
      /\ SmsCustomer(workOrders[last'.id].customer))
     => last'.sms /= "none"]_vars

-----------------------------------------------------------------------------
(* Services: requests that differ in the services array and in the          *)
(* serviceRequested text: empty, one line, two lines, and two lines with    *)
(* a space before the line break.                                           *)

ServiceTexts ==
  {<<>>, <<"a">>, <<"a", NL, "b">>, <<"a", SP, NL, "b">>}

ServiceArrays == {<<>>, << <<"a">> >>, << <<"a">>, <<"b">> >>}

ServicesBodies ==
  {[EmptyBody EXCEPT !.services = sv, !.serviceRequested = sr] :
     sv \in {Absent} \cup {Some(x) : x \in ServiceArrays},
     sr \in {Absent} \cup {Some(x) : x \in ServiceTexts}}

NextServices ==
  \/ \E body \in ServicesBodies : CreateWorkOrder(ForOwner(body), 1)
  \/ \E id \in WoIds, body \in ServicesBodies : UpdateWorkOrder(id, body, 1, TRUE)

SpecServices == Init /\ [][NextServices]_vars

\* C5: after any successful createWorkOrder or updateWorkOrder the stored
\* serviceRequested is the descriptions of the stored services joined by
\* newline, and is empty or absent exactly when there are no services.
C5_ServiceRequestedInSync ==
  \A id \in DOMAIN workOrders :
    IF workOrders[id].services = <<>>
    THEN ~TruthyStr(workOrders[id].serviceRequested)
    ELSE workOrders[id].serviceRequested = Some(JoinNL(workOrders[id].services))

-----------------------------------------------------------------------------
(* Mileage: requests that differ in currentMileage, given as a number (0   *)
(* or 7) or as a string (empty, no number, a number), and updates that     *)
(* also move the work order to vehicle 2.                                  *)

MileageInputs ==
  {Absent, Some(<<"num", 0>>), Some(<<"num", 7>>),
   Some(<<"str", <<>>>>), Some(<<"str", <<"a">>>>),
   Some(<<"str", <<"7">>>>)}

MileageBodies ==
  {[EmptyBody EXCEPT !.currentMileage = m, !.vehicle = v] :
     m \in MileageInputs, v \in {Absent, Some(2)}}

NextMileage ==
  \/ \E body \in MileageBodies : CreateWorkOrder(ForOwner(body), 1)
  \/ \E id \in WoIds, body \in MileageBodies : UpdateWorkOrder(id, body, 1, TRUE)

SpecMileage == Init /\ [][NextMileage]_vars

\* The currentMileage of a body parses to a number other than zero.
ParsesNonZero(m) ==
  /\ Has(m)
  /\ Has(ParseFloat(Val(m)))
  /\ Val(ParseFloat(Val(m))) /= 0

\* The mileage fields of no vehicle change in the step.
MileageUnchanged ==
  \A v \in DOMAIN vehicles :
    /\ vehicles'[v].currentMileage = vehicles[v].currentMileage
    /\ vehicles'[v].mileageHistory = vehicles[v].mileageHistory

\* Vehicle v now reads mileage n and holds an entry of n from work order id.
MileageRecorded(v, n, id) ==
  /\ v \in DOMAIN vehicles'
  /\ vehicles'[v].currentMileage = n
  /\ \E i \in 1..Len(vehicles'[v].mileageHistory) :
       /\ vehicles'[v].mileageHistory[i].mileage = n
       /\ vehicles'[v].mileageHistory[i].source = id

\* C6: after createWorkOrder or updateWorkOrder with a currentMileage that
\* parses to a number other than zero, the vehicle of the work order reads
\* that mileage and holds an entry of it whose source is the work order;
\* with currentMileage absent, zero or not a number, the request changes the
\* currentMileage and the mileageHistory of no vehicle.
C6_MileageFollowsWorkOrder ==
  [][(/\ last'.op \in {"createWorkOrder", "updateWorkOrder"}
      /\ last'.id \in DOMAIN workOrders')
     => IF ParsesNonZero(last'.body.currentMileage)
        THEN MileageRecorded(workOrders'[last'.id].vehicle,
                             Val(ParseFloat(Val(last'.body.currentMileage))),
                             last'.id)
        ELSE MileageUnchanged]_vars

-----------------------------------------------------------------------------
(* Every handler, on ids that name a document and on ids that name none.    *)

CreateBodies ==
  {[EmptyBody EXCEPT !.customer = c, !.vehicle = v, !.currentMileage = m] :
     c \in {Some(1), Some(2), Some(MaxCustomers + 1)},
     v \in {Some(1), Some(3)},
     m \in {Absent, Some(<<"num", 7>>)}}

UpdateBodies ==
  {[EmptyBody EXCEPT !.parts = p, !.currentMileage = m, !.status = st] :
     p \in {Absent, Some(<<PartLine>>)},
     m \in {Absent, Some(<<"num", 7>>)},
     st \in {Absent, Some("Repair In Progress")}}

StatusBodies ==
  {[EmptyBody EXCEPT !.status = st] : st \in {Absent, Some("Repair In Progress")}}

CustomerBody ==
  [EmptyCustomerBody EXCEPT !.communicationPreference = Some("Email"),
                            !.phone = Some("555")]

Next ==
  \/ \E body \in CreateBodies : CreateWorkOrder(body, 1)
  \/ \E id \in WoIds : GetWorkOrder(id)
  \/ \E id \in WoIds, body \in UpdateBodies : UpdateWorkOrder(id, body, 1, TRUE)
  \/ \E id \in WoIds : DeleteWorkOrder(id)
  \/ \E id \in WoIds, body \in StatusBodies : UpdateStatus(id, body, TRUE)
  \/ \E id \in WoIds : AddPart(id, PartLine, TRUE)
  \/ \E id \in WoIds : AddLabor(id, LaborLine, TRUE)
  \/ \E id \in WoIds : GenerateInvoice(id)
  \/ \E id \in CustIds : GetCustomer(id)
  \/ CreateCustomer(CustomerBody)
  \/ \E id \in CustIds : UpdateCustomer(id, CustomerBody)
  \/ \E id \in CustIds : DeleteCustomer(id)
  \/ \E id \in CustIds : GetCustomerVehicles(id)

Spec == Init /\ [][Next]_vars

WorkOrderItemOps ==
  {"getWorkOrder", "updateWorkOrder", "deleteWorkOrder", "updateStatus",
   "addPart", "addLabor", "generateInvoice"}

CustomerItemOps ==
  {"getCustomer", "updateCustomer", "deleteCustomer", "getCustomerVehicles"}

\* The step is a request on a work order or a customer that is not stored.
OnMissingDocument ==
  \/ last'.op \in WorkOrderItemOps /\ last'.id \notin DOMAIN workOrders
  \/ last'.op \in CustomerItemOps /\ last'.id \notin DOMAIN customers

C8_CreateRejected ==
  [][last'.op = "createWorkOrder"
     => LET b == last'.body
            noVehicle == ~Has(b.vehicle) \/ Val(b.vehicle) \notin DOMAIN vehicles
            noCustomer == ~Has(b.customer) \/ Val(b.customer) \notin DOMAIN customers
        IN IF noVehicle \/ noCustomer
           THEN last'.code = 404 /\ UNCHANGED <<workOrders, vehicles>>
           ELSE vehicles[Val(b.vehicle)].customer /= Val(b.customer)
                => last'.code = 400 /\ UNCHANGED <<workOrders, vehicles>>]_vars

C8_Witness ==
  /\ last.op = "createWorkOrder"
  /\ last.code = 400
  /\ MileageGiven(last.body.currentMileage)
  /\ vehicles[Val(last.body.vehicle)].customer /= Val(last.body.customer)

\* C9: deleteCustomer on a customer with a vehicle answers 400 and keeps the
\* customer; on a stored customer without vehicles it removes that customer
\* and no other document.
C9_DeleteCustomer ==
  [][(last'.op = "deleteCustomer" /\ last'.id \in DOMAIN customers)
     => IF \E v \in DOMAIN vehicles : vehicles[v].customer = last'.id
        THEN last'.code = 400 /\ UNCHANGED <<workOrders, vehicles, customers>>
        ELSE /\ last'.code = 204
             /\ customers' = Remove(customers, last'.id)
             /\ UNCHANGED <<workOrders, vehicles>>]_vars

C9_Witness ==
  /\ last.op = "deleteCustomer"
  /\ last.code = 204
  /\ last.id \notin DOMAIN customers
  /\ workOrders /= <<>>

\* The documents of a collection that a step creates, deletes or changes.
ChangedIn(old, new) ==
  {id \in DOMAIN old \cup DOMAIN new :
     id \notin DOMAIN old \/ id \notin DOMAIN new \/ old[id] /= new[id]}

NumChanged ==
  Cardinality(ChangedIn(workOrders, workOrders'))
  + Cardinality(ChangedIn(vehicles, vehicles'))
  + Cardinality(ChangedIn(customers, customers'))

\* C10 as claimed: no request modifies more than one stored document.
C10_OneDocumentPerRequest == [][NumChanged <= 1]_vars

\* C10 as amended: a request modifies at most one stored document, except
\* that createWorkOrder, updateWorkOrder and deleteWorkOrder may modify two:
\* the work order and the vehicle it refers to.
C10_WorkOrderAndItsVehicle ==
  [][\/ NumChanged <= 1
     \/ /\ NumChanged = 2
        /\ last'.op \in {"createWorkOrder", "updateWorkOrder", "deleteWorkOrder"}
        /\ ChangedIn(workOrders, workOrders') = {last'.id}
        /\ ChangedIn(vehicles, vehicles') =
             {IF last'.op = "createWorkOrder"
              THEN workOrders'[last'.id].vehicle
              ELSE workOrders[last'.id].vehicle}]_vars

C10_Witness ==
  /\ last.op = "updateWorkOrder"
  /\ last.code = 200
  /\ Has(last.body.parts)
  /\ MileageGiven(last.body.currentMileage)
  /\ workOrders[last.id].parts = Val(last.body.parts)
  /\ vehicles[workOrders[last.id].vehicle].currentMileage = 7

-----------------------------------------------------------------------------
(* The handlers step by step. A request in flight sits in a slot of pending *)
(* between its awaits: pc is the block it runs next, doc the work order it  *)
(* has read, body the workOrderData it has built so far.                    *)

Request(op, id, body, pc, doc, now) ==
  [op |-> op, id |-> id, body |-> body, pc |-> pc, doc |-> doc, now |-> now,
   sms |-> "none", steps |-> <<>>]

Slots == 1..MaxInFlight

FreeSlot == CHOOSE s \in Slots : s \notin DOMAIN pending

\* The request has answered: its response is recorded and its slot is free.
Respond(r, code, sms, steps) ==
  /\ last' = [Response(pending[r].op, pending[r].id, pending[r].body, code, sms)
                EXCEPT !.steps = steps]
  /\ pending' = Remove(pending, r)

\* Line 194: updateWorkOrder receives the request.
UpdateBegin(id, body, now) ==
  /\ DOMAIN pending /= Slots
  /\ pending' = Put(pending, FreeSlot,
                    Request("updateWorkOrder", id, body, "totals", Absent, now))
  /\ UNCHANGED <<workOrders, vehicles, customers, nextWo, nextCust, last>>

\* Lines 223-270: the estimate is computed into workOrderData.
UpdateTotals(r) ==
  LET q == pending[r] IN
  /\ q.op = "updateWorkOrder" /\ q.pc = "totals"
  /\ IF UpdateEarlyNotFound(q.id, q.body)
     THEN Respond(r, 404, "none", q.steps)
     ELSE /\ pending' =
               [pending EXCEPT
                  ![r].pc = "mileage",
                  ![r].body.totalEstimate =
                     IF Has(q.body.parts) \/ Has(q.body.labor)
                     THEN UpdateEstimate(q.body, workOrders[q.id]) ELSE @,
                  ![r].steps =
                     IF Has(q.body.parts) \/ Has(q.body.labor)
                     THEN Append(@, "totals") ELSE @]
          /\ UNCHANGED last
  /\ UNCHANGED <<workOrders, vehicles, customers, nextWo, nextCust>>

\* Lines 273-298: the mileage is saved on the vehicle.
UpdateMileage(r) ==
  LET q == pending[r]
      touches == UpdateTouchesVehicle(q.id, q.body)
  IN /\ q.op = "updateWorkOrder" /\ q.pc = "mileage"
     /\ vehicles' =
          IF touches
          THEN [vehicles EXCEPT ![MileageVehicle(q.id, q.body)] =
                  VehicleAfterUpdate(@, q.id, q.body, q.now)]
          ELSE vehicles
     /\ pending' = [pending EXCEPT
                      ![r].pc = "notify",
                      ![r].steps = IF touches THEN Append(@, "mileage") ELSE @]
     /\ UNCHANGED <<workOrders, customers, nextWo, nextCust, last>>

\* Lines 300-348: the customer is notified of the new status.
UpdateNotify(r, smsOk) ==
  LET q == pending[r]
      sms == SmsCall(UpdateNotifies(q.id, q.body), smsOk)
  IN /\ q.op = "updateWorkOrder" /\ q.pc = "notify"
     /\ pending' = [pending EXCEPT
                      ![r].pc = "write",
                      ![r].sms = sms,
                      ![r].steps = IF sms /= "none" THEN Append(@, "notify") ELSE @]
     /\ UNCHANGED <<workOrders, vehicles, customers, nextWo, nextCust, last>>

\* Lines 350-402: findByIdAndUpdate stores workOrderData and the request answers.
UpdateWrite(r) ==
  LET q == pending[r]
      code == AfterSms(UpdateWorkOrderCode(q.id, q.body), q.sms)
      stored == code = 200 /\ Has(q.body.status)
                /\ Val(q.body.status) /= workOrders[q.id].status
  IN /\ q.op = "updateWorkOrder" /\ q.pc = "write"
     /\ workOrders' =
          IF code = 200
          THEN [workOrders EXCEPT ![q.id] = UpdatedWorkOrder(@, q.body)]
          ELSE workOrders
     /\ Respond(r, code, q.sms,
                IF stored THEN Append(q.steps, "status") ELSE q.steps)
     /\ UNCHANGED <<vehicles, customers, nextWo, nextCust>>

\* Lines 428-438: updateStatus checks the status and reads the work order.
StatusRead(id, body) ==
  LET code == UpdateStatusCode(id, body) IN
  /\ DOMAIN pending /= Slots
  /\ IF code \in {400, 404}
     THEN /\ last' = Response("updateStatus", id, body, code, "none")
          /\ UNCHANGED pending
     ELSE /\ pending' = Put(pending, FreeSlot,
                 Request("updateStatus", id, body, "save",
                         Some(workOrders[id]), 0))
          /\ UNCHANGED last
  /\ UNCHANGED <<workOrders, vehicles, customers, nextWo, nextCust>>

\* workOrder.save() writes the paths the request has modified.
SavedPaths(stored, read, modified) ==
  [stored EXCEPT
     !.status = IF modified.status /= read.status THEN modified.status ELSE @,
     !.totalActual =
        IF modified.totalActual /= read.totalActual
        THEN modified.totalActual ELSE @]

\* Lines 440-457: the status and the actual total are set and saved.
StatusSave(r) ==
  LET q == pending[r]
      read == Val(q.doc)
      status == Val(q.body.status)
      modified == WithStatus(read, status)
  IN /\ q.op = "updateStatus" /\ q.pc = "save"
     /\ q.id \in DOMAIN workOrders
     /\ workOrders' =
          [workOrders EXCEPT ![q.id] = SavedPaths(@, read, modified)]
     /\ pending' =
          [pending EXCEPT
             ![r].pc = "notify",
             ![r].steps =
                (IF modified.status /= read.status THEN <<"status">> ELSE <<>>)
                \o (IF SetsTotalActual(status) THEN <<"totals">> ELSE <<>>)]
     /\ UNCHANGED <<vehicles, customers, nextWo, nextCust, last>>

\* Lines 459-501: the work order is read again, the customer notified.
StatusNotify(r, smsOk) ==
  LET q == pending[r]
      sms == SmsCall(StatusNotifies(workOrders[q.id]), smsOk)
  IN /\ q.op = "updateStatus" /\ q.pc = "notify"
     /\ q.id \in DOMAIN workOrders
     /\ Respond(r, AfterSms(200, sms), sms,
                IF sms /= "none" THEN Append(q.steps, "notify") ELSE q.steps)
     /\ UNCHANGED <<workOrders, vehicles, customers, nextWo, nextCust>>

-----------------------------------------------------------------------------
(* The pipeline: one request in flight at a time, taken block by block;     *)
(* updates submit a status, parts and a mileage or leave them out.          *)

PipelineStatuses == {"Repair In Progress", "Invoiced"}

PipelineBodies ==
  {[EmptyBody EXCEPT !.status = st, !.parts = p, !.currentMileage = m] :
     st \in {Absent} \cup {Some(x) : x \in PipelineStatuses},
     p \in {Absent, Some(<<PartLine>>)},
     m \in {Absent, Some(<<"num", 7>>)}}

NextPipeline ==
  \/ pending = <<>> /\ CreateWorkOrder(ForOwner(EmptyBody), 1)
  \/ \E id \in WoIds, body \in PipelineBodies :
       pending = <<>> /\ UpdateBegin(id, body, 1)
  \/ \E r \in DOMAIN pending : UpdateTotals(r)
  \/ \E r \in DOMAIN pending : UpdateMileage(r)
  \/ \E r \in DOMAIN pending, smsOk \in BOOLEAN : UpdateNotify(r, smsOk)
  \/ \E r \in DOMAIN pending : UpdateWrite(r)
  \/ \E id \in WoIds, st \in PipelineStatuses :
       pending = <<>> /\ StatusRead(id, [EmptyBody EXCEPT !.status = Some(st)])
  \/ \E r \in DOMAIN pending : StatusSave(r)
  \/ \E r \in DOMAIN pending, smsOk \in BOOLEAN : StatusNotify(r, smsOk)

SpecPipeline == Init /\ [][NextPipeline]_vars

\* The order the specification gives the save pipeline.
Pipeline == <<"status", "notify", "totals", "mileage">>

Position(step) == CHOOSE i \in 1..Len(Pipeline) : Pipeline[i] = step

InPipelineOrder(steps) ==
  \A i, j \in 1..Len(steps) :
    i < j => Position(steps[i]) < Position(steps[j])

\* C11: the effects of a work-order save come in the order status
\* transition, notification, total recalculation, vehicle mileage sync.
C11_PipelineOrder ==
  /\ InPipelineOrder(last.steps)
  /\ \A r \in DOMAIN pending : InPipelineOrder(pending[r].steps)

-----------------------------------------------------------------------------
(* Create, read, delete. *)

\* Work orders are created with or without a status, parts, labor and a
\* two-line service text, read, updated, deleted; customers come and go.
RoundTripBodies ==
  {ForOwner([EmptyBody EXCEPT !.status = st, !.parts = p, !.labor = l,
                              !.serviceRequested = sr]) :
     st \in {Absent, Some("Invoiced")},
     p \in {Absent, Some(<<PartLine>>)},
     l \in {Absent, Some(<<LaborLine>>)},
     sr \in {Absent, Some(<<"a", NL, "b">>)}}

NextRoundTrip ==
  \/ \E body \in RoundTripBodies : CreateWorkOrder(body, 1)
  \/ \E id \in WoIds : GetWorkOrder(id)
  \/ \E id \in WoIds, body \in UpdateBodies : UpdateWorkOrder(id, body, 1, TRUE)
  \/ \E id \in WoIds : DeleteWorkOrder(id)
  \/ CreateCustomer(CustomerBody)
  \/ \E id \in CustIds : UpdateCustomer(id, CustomerBody)
  \/ \E id \in CustIds : DeleteCustomer(id)

SpecRoundTrip == Init /\ [][NextRoundTrip]_vars

WorkOrderWriters ==
  {"updateWorkOrder", "updateStatus", "addPart", "addLabor", "deleteWorkOrder"}

\* The fields the round trip compares.
SameAsStored(data, doc) ==
  /\ data.customer = Some(doc.customer)
  /\ data.vehicle = Some(doc.vehicle)
  /\ data.status = doc.status
  /\ data.parts = doc.parts
  /\ data.labor = doc.labor
  /\ data.services = doc.services

\* C12: createWorkOrder stores the work order it answers with; until an
\* update or a delete of that work order no request changes it, and
\* getWorkOrder answers 200 with its stored customer, vehicle, status, parts,
\* labor and services; a successful deleteWorkOrder removes it, its id is
\* not given out again, and getWorkOrder on an id not stored answers 404.
C12_CreateReadRoundTrip ==
  [][/\ (last'.op = "createWorkOrder" /\ last'.code = 201)
        => /\ last'.id \notin DOMAIN workOrders
           /\ last'.id \in DOMAIN workOrders'
           /\ Val(last'.data) = workOrders'[last'.id]
           /\ Val(last'.data).customer = Val(last'.body.customer)
           /\ Val(last'.data).vehicle = Val(last'.body.vehicle)
     /\ \A id \in DOMAIN workOrders :
          ~(last'.op \in WorkOrderWriters /\ last'.id = id)
          => id \in DOMAIN workOrders' /\ workOrders'[id] = workOrders[id]
     /\ last'.op = "getWorkOrder"
        => IF last'.id \in DOMAIN workOrders
           THEN /\ last'.code = 200
                /\ SameAsStored(Val(last'.data), workOrders[last'.id])
           ELSE last'.code = 404
     /\ (last'.op = "deleteWorkOrder" /\ last'.code = 204)
        => last'.id \notin DOMAIN workOrders'
     /\ \A id \in DOMAIN workOrders' : id < nextWo'
     /\ nextWo' >= nextWo]_vars

C12_Witness ==
  /\ last.op = "getWorkOrder"
  /\ last.code = 200
  /\ Has(last.data)
  /\ SameAsStored(Val(last.data), workOrders[last.id])
  /\ Val(last.data).status = "Invoiced"
  /\ Val(last.data).parts = <<PartLine>>
  /\ Val(last.data).services = <<<<"a">>, <<"b">>>>

-----------------------------------------------------------------------------
(* The estimate of a new work order. *)

\* C13: a createWorkOrder request without a totalEstimate stores the cost
\* of the submitted parts plus the cost of the submitted labor, also when
\* the request carries both.
C13_CreateEstimateIsSum ==
  (/\ last.op = "createWorkOrder"
   /\ last.code = 201
   /\ ~Has(last.body.totalEstimate))
  => Val(last.data).totalEstimate =
       PartsCost(OrElse(last.body.parts, <<>>))
       + LaborCost(OrElse(last.body.labor, <<>>))

-----------------------------------------------------------------------------
(* The work-order detail page (WorkOrderDetail.jsx): a part or a labor line *)
(* is edited or removed by sending the whole work order the page holds,     *)
(* with the changed list, to updateWorkOrder.                               *)

\* { ...workOrder }: every field of the fetched work order is submitted.
DetailBody(doc) ==
  [EmptyBody EXCEPT
     !.customer = doc.customer,
     !.vehicle = doc.vehicle,
     !.status = Some(doc.status),
     !.services = Some(doc.services),
     !.serviceRequested = Some(doc.serviceRequested),
     !.parts = Some(doc.parts),
     !.labor = Some(doc.labor),
     !.totalEstimate = Some(doc.totalEstimate),
     !.totalActual = Some(doc.totalActual),
     !.date = Some(doc.date),
     !.appointmentId = doc.appointmentId,
     !.assignedTechnician = doc.assignedTechnician]

\* updatedParts[index] = { ...updatedParts[index], ...newPart }
ReplaceAt(lines, index, line) == [lines EXCEPT ![index] = line]

\* parts.filter((_, idx) => idx !== index)
RemoveAt(lines, index) ==
  [i \in 1..(Len(lines) - 1) |-> IF i < index THEN lines[i] ELSE lines[i + 1]]

HandleEditPart(id, index, newPart) ==
  /\ id \in DOMAIN workOrders
  /\ index \in 1..Len(workOrders[id].parts)
  /\ UpdateWorkOrder(id,
       [DetailBody(FoundWorkOrder(id)) EXCEPT
          !.parts = Some(ReplaceAt(workOrders[id].parts, index, newPart))],
       1, TRUE)

HandleRemovePart(id, index) ==
  /\ id \in DOMAIN workOrders
  /\ index \in 1..Len(workOrders[id].parts)
  /\ UpdateWorkOrder(id,
       [DetailBody(FoundWorkOrder(id)) EXCEPT
          !.parts = Some(RemoveAt(workOrders[id].parts, index))],
       1, TRUE)

HandleEditLabor(id, index, newLabor) ==
  /\ id \in DOMAIN workOrders
  /\ index \in 1..Len(workOrders[id].labor)
  /\ UpdateWorkOrder(id,
       [DetailBody(FoundWorkOrder(id)) EXCEPT
          !.labor = Some(ReplaceAt(workOrders[id].labor, index, newLabor))],
       1, TRUE)

HandleRemoveLabor(id, index) ==
  /\ id \in DOMAIN workOrders
  /\ index \in 1..Len(workOrders[id].labor)
  /\ UpdateWorkOrder(id,
       [DetailBody(FoundWorkOrder(id)) EXCEPT
          !.labor = Some(RemoveAt(workOrders[id].labor, index))],
       1, TRUE)

\* The lines an edit writes in place of PartLine and LaborLine.
EditedPartLine == [price |-> 4, quantity |-> 1]
EditedLaborLine == [hours |-> 1, rate |-> 3]

\* The page adds lines through addPart and addLabor, edits and removes them.
NextDetail ==
  \/ CreateWorkOrder(ForOwner(EmptyBody), 1)
  \/ \E id \in WoIds, part \in {PartLine, EditedPartLine} : AddPart(id, part, TRUE)
  \/ \E id \in WoIds, line \in {LaborLine, EditedLaborLine} : AddLabor(id, line, TRUE)
  \/ \E id \in WoIds, i \in 1..MaxLines, part \in {PartLine, EditedPartLine} :
       HandleEditPart(id, i, part)
  \/ \E id \in WoIds, i \in 1..MaxLines : HandleRemovePart(id, i)
  \/ \E id \in WoIds, i \in 1..MaxLines, line \in {LaborLine, EditedLaborLine} :
       HandleEditLabor(id, i, line)
  \/ \E id \in WoIds, i \in 1..MaxLines : HandleRemoveLabor(id, i)

SpecDetail == Init /\ [][NextDetail]_vars

\* C14: after the detail page has edited or removed a part or a labor line,
\* the stored totalEstimate is the cost of the parts plus the cost of the
\* labor the work order now has.
C14_EstimateAfterDetailEdit ==
  (last.op = "updateWorkOrder" /\ last.code = 200)
  => workOrders[last.id].totalEstimate =
       PartsCost(workOrders[last.id].parts)
       + LaborCost(workOrders[last.id].labor)

-----------------------------------------------------------------------------
(* The actual total. *)

\* C15: in every reachable state a work order whose status is
\* 'Completed - Paid' or 'Invoiced' has totalActual equal to the cost of
\* its parts plus the cost of its labor.
C15_TotalActualWhenPaid ==
  \A id \in DOMAIN workOrders :
    workOrders[id].status \in {"Completed - Paid", "Invoiced"}
    => workOrders[id].totalActual =
         PartsCost(workOrders[id].parts) + LaborCost(workOrders[id].labor)

\* C16: an updateWorkOrder request without a totalEstimate that submits
\* parts or labor stores the cost of the submitted parts, or of the stored
\* parts when it submits none, plus the cost of the submitted labor, or of
\* the stored labor when it submits none; a request that submits neither
\* leaves the stored totalEstimate as it was.
C16_UpdateEstimateIsSum ==
  [][(/\ last'.op = "updateWorkOrder"
      /\ last'.code = 200
      /\ ~Has(last'.body.totalEstimate))
     => LET body == last'.body
            stored == workOrders[last'.id]
        IN workOrders'[last'.id].totalEstimate =
             IF Has(body.parts) \/ Has(body.labor)
             THEN PartsCost(OrElse(body.parts, stored.parts))
                  + LaborCost(OrElse(body.labor, stored.labor))
             ELSE stored.totalEstimate]_vars

C16_Witness ==
  /\ last.op = "updateWorkOrder"
  /\ last.code = 200
  /\ ~Has(last.body.parts)
  /\ last.body.labor = Some(<<LaborLine>>)
  /\ workOrders[last.id].parts = <<PartLine>>
  /\ workOrders[last.id].totalEstimate = 16

-----------------------------------------------------------------------------
(* Updates that provide a totalEstimate, 0 or 9, with or without lines.     *)

EstimateBodies ==
  {[EmptyBody EXCEPT !.totalEstimate = Some(e), !.parts = p, !.labor = l] :
     e \in {0, 9},
     p \in {Absent, Some(<<PartLine>>)},
     l \in {Absent, Some(<<LaborLine>>)}}

NextEstimate ==
  \/ CreateWorkOrder(ForOwner(EmptyBody), 1)
  \/ \E id \in WoIds, body \in EstimateBodies : UpdateWorkOrder(id, body, 1, TRUE)
  \/ \E id \in WoIds : AddPart(id, PartLine, TRUE)
  \/ \E id \in WoIds : AddLabor(id, LaborLine, TRUE)

SpecEstimate == Init /\ [][NextEstimate]_vars

\* C17: an updateWorkOrder request that provides a totalEstimate stores the
\* provided value, not one computed from parts and labor.
C17_ProvidedEstimateIsStored ==
  [][(/\ last'.op = "updateWorkOrder"
      /\ last'.code = 200
      /\ Has(last'.body.totalEstimate))
     => workOrders'[last'.id].totalEstimate = Val(last'.body.totalEstimate)]_vars

-----------------------------------------------------------------------------
(* Status changes: a work order with or without lines is given each of four *)
(* statuses, an empty one or none.                                          *)

StatusInputs ==
  {Absent, Some("")}
  \cup {Some(st) : st \in {"Created", "Repair In Progress",
                          "Completed - Paid", "Invoiced"}}

NextStatus ==
  \/ \E body \in RoundTripBodies : CreateWorkOrder(body, 1)
  \/ \E id \in WoIds : AddPart(id, PartLine, TRUE)
  \/ \E id \in WoIds, st \in StatusInputs, smsOk \in BOOLEAN :
       UpdateStatus(id, [EmptyBody EXCEPT !.status = st], smsOk)

SpecStatus == Init /\ [][NextStatus]_vars

\* C18: updateStatus with a non-empty status on a stored work order stores
\* that status whatever the current one is, sets totalActual to the cost of
\* parts plus labor exactly when the status is 'Completed - Paid' or
\* 'Invoiced' and otherwise leaves it, and changes no parts, labor, services
\* or totalEstimate; without a status it answers 400 and changes nothing.
C18_UpdateStatusFrame ==
  [][last'.op = "updateStatus"
     => IF ~Has(last'.body.status) \/ Val(last'.body.status) = ""
        THEN /\ last'.code = 400
             /\ UNCHANGED <<workOrders, vehicles, customers>>
        ELSE last'.id \in DOMAIN workOrders
             => LET old == workOrders[last'.id]
                    new == workOrders'[last'.id]
                    status == Val(last'.body.status)
                IN /\ last'.code = 200
                   /\ new.status = status
                   /\ new.totalActual =
                        IF status \in {"Completed - Paid", "Invoiced"}
                        THEN PartsCost(old.parts) + LaborCost(old.labor)
                        ELSE old.totalActual
                   /\ new.parts = old.parts
                   /\ new.labor = old.labor
                   /\ new.services = old.services
                   /\ new.totalEstimate = old.totalEstimate
                   /\ UNCHANGED <<vehicles, customers>>]_vars

C18_Witness ==
  /\ last.op = "updateStatus"
  /\ last.code = 200
  /\ last.body.status = Some("Invoiced")
  /\ workOrders[last.id].status = "Invoiced"
  /\ workOrders[last.id].parts /= <<>>
  /\ workOrders[last.id].totalActual = 16

-----------------------------------------------------------------------------
(* addPart and addLabor step by step, and requests that interleave. *)

\* Lines 506-510, 552-556: the work order is read.
AddRead(op, id, line) ==
  LET body == IF op = "addPart"
              THEN [EmptyBody EXCEPT !.parts = Some(<<line>>)]
              ELSE [EmptyBody EXCEPT !.labor = Some(<<line>>)]
  IN /\ DOMAIN pending /= Slots
     /\ IF id \notin DOMAIN workOrders
        THEN /\ last' = Response(op, id, body, 404, "none")
             /\ UNCHANGED pending
        ELSE /\ pending' = Put(pending, FreeSlot,
                    Request(op, id, body, "save", Some(workOrders[id]), 0))
             /\ UNCHANGED last
     /\ UNCHANGED <<workOrders, vehicles, customers, nextWo, nextCust>>

\* The elements pushed onto an array since it was read.
Pushed(read, modified) == SubSeq(modified, Len(read) + 1, Len(modified))

\* workOrder.save() after a push: the pushed elements are appended to the
\* stored array ($push) and the modified totalEstimate is set ($set).
SavedLines(stored, read, modified) ==
  [stored EXCEPT
     !.parts = @ \o Pushed(read.parts, modified.parts),
     !.labor = @ \o Pushed(read.labor, modified.labor),
     !.totalEstimate =
        IF modified.totalEstimate /= read.totalEstimate
        THEN modified.totalEstimate ELSE @]

\* Lines 512-548, 558-594: the line is pushed, the estimate recomputed from
\* the work order as it was read, and the work order saved.
AddSave(r) ==
  LET q == pending[r]
      read == Val(q.doc)
      modified == IF q.op = "addPart"
                  THEN WithPart(read, Val(q.body.parts)[1])
                  ELSE WithLabor(read, Val(q.body.labor)[1])
  IN /\ q.op \in {"addPart", "addLabor"} /\ q.pc = "save"
     /\ q.id \in DOMAIN workOrders
     /\ workOrders' =
          [workOrders EXCEPT ![q.id] = SavedLines(@, read, modified)]
     /\ Respond(r, 200, "none", q.steps)
     /\ UNCHANGED <<vehicles, customers, nextWo, nextCust>>

\* The lines a work order has or is about to get.
LinesInPlay(id) ==
  Len(workOrders[id].parts) + Len(workOrders[id].labor)
  + Cardinality({r \in DOMAIN pending :
                   pending[r].id = id /\ pending[r].op \in {"addPart", "addLabor"}})

\* Up to MaxInFlight requests on the work order are in flight at once.
NextInterleaved ==
  \/ CreateWorkOrder(ForOwner(EmptyBody), 1)
  \/ \E id \in WoIds :
       /\ id \in DOMAIN workOrders => LinesInPlay(id) < MaxInFlight
       /\ AddRead("addPart", id, PartLine)
  \/ \E id \in WoIds :
       /\ id \in DOMAIN workOrders => LinesInPlay(id) < MaxInFlight
       /\ AddRead("addLabor", id, LaborLine)
  \/ \E r \in DOMAIN pending : AddSave(r)
  \/ \E id \in WoIds, st \in {"Repair In Progress", "Invoiced"} :
       StatusRead(id, [EmptyBody EXCEPT !.status = Some(st)])
  \/ \E r \in DOMAIN pending : StatusSave(r)
  \/ \E r \in DOMAIN pending, smsOk \in BOOLEAN : StatusNotify(r, smsOk)

SpecInterleaved == Init /\ [][NextInterleaved]_vars

\* C19: when requests on one work order interleave between their read and
\* their save, every addPart and addLabor that completes leaves its line on
\* the work order without losing another, and once no request is in flight
\* the totalEstimate of the work order is the cost of all its parts and
\* labor.
C19_InterleavedAddsKeepTotal ==
  [][/\ \A r \in DOMAIN pending \ DOMAIN pending' :
          pending[r].op \in {"addPart", "addLabor"}
          => Len(workOrders'[pending[r].id].parts)
             + Len(workOrders'[pending[r].id].labor)
               = Len(workOrders[pending[r].id].parts)
                 + Len(workOrders[pending[r].id].labor) + 1
     /\ pending' = <<>>
        => \A id \in DOMAIN workOrders' :
             workOrders'[id].totalEstimate =
               PartsCost(workOrders'[id].parts)
               + LaborCost(workOrders'[id].labor)]_vars

-----------------------------------------------------------------------------
(* Updates that fail: the work order is not there, or the write is rejected *)
(* by the validators (runValidators), with or without lines and a mileage.  *)

RejectedBodies ==
  {[EmptyBody EXCEPT !.parts = p, !.currentMileage = m, !.status = st,
                     !.valid = ok] :
     p \in {Absent, Some(<<PartLine>>)},
     m \in {Absent, Some(<<"num", 7>>)},
     st \in {Absent, Some("Repair In Progress")},
     ok \in BOOLEAN}

NextRejected ==
  \/ CreateWorkOrder(ForOwner(EmptyBody), 1)
  \/ \E id \in WoIds, body \in RejectedBodies, smsOk \in BOOLEAN :
       UpdateWorkOrder(id, body, 1, smsOk)
  \/ \E id \in WoIds : DeleteWorkOrder(id)

SpecRejected == Init /\ [][NextRejected]_vars

\* C20: an updateWorkOrder request that ends in an error, the work order
\* not found or the write rejected by validation, has changed no stored
\* document; the currentMileage and mileageHistory of the vehicle are as
\* they were.
C20_FailedUpdateChangesNothing ==
  [][(last'.op = "updateWorkOrder" /\ last'.code /= 200)
     => UNCHANGED <<workOrders, vehicles, customers>>]_vars

-----------------------------------------------------------------------------
(* Notification and the write it announces. *)

\* C21: no SMS is sent by an updateWorkOrder or updateStatus request whose
\* write of the work order fails.
C21_NoSmsForFailedWrite ==
  (last.op \in {"updateWorkOrder", "updateStatus"} /\ last.code /= 200)
  => last.sms = "none"

-----------------------------------------------------------------------------
(* Service history: work orders are created, moved to the other vehicle or  *)
(* left on theirs by an update, and deleted.                                *)

HistoryBodies ==
  {[EmptyBody EXCEPT !.vehicle = v, !.status = st] :
     v \in {Absent, Some(1), Some(2)},
     st \in {Absent, Some("Repair In Progress")}}

NextHistory ==
  \/ CreateWorkOrder(ForOwner(EmptyBody), 1)
  \/ \E id \in WoIds, body \in HistoryBodies : UpdateWorkOrder(id, body, 1, TRUE)
  \/ \E id \in WoIds : DeleteWorkOrder(id)
  \/ \E id \in WoIds : GetWorkOrder(id)

SpecHistory == Init /\ [][NextHistory]_vars

\* The ids in a history, as a set.
Ids(history) == {history[i] : i \in 1..Len(history)}

\* C22: the serviceHistory of every vehicle holds exactly the ids of the
\* stored work orders whose vehicle it is.
C22_ServiceHistoryMatches ==
  \A v \in DOMAIN vehicles :
    Ids(vehicles[v].serviceHistory)
      = {id \in DOMAIN workOrders : workOrders[id].vehicle = v}

\* C23: the vehicle of every stored work order is a stored vehicle that
\* belongs to the customer of the work order.
C23_VehicleBelongsToCustomer ==
  \A id \in DOMAIN workOrders :
    /\ workOrders[id].vehicle \in DOMAIN vehicles
    /\ vehicles[workOrders[id].vehicle].customer = workOrders[id].customer

-----------------------------------------------------------------------------
(* Service lines: texts of one line or several, with and without white      *)
(* space around the lines and blank lines between them.                     *)

LineTexts ==
  {<<"a">>, <<SP, "a">>, <<"a", SP>>, <<"a", NL, "b">>,
   <<SP, "a", NL, NL, "b", SP>>}

LineBodies ==
  {[EmptyBody EXCEPT !.services = sv, !.serviceRequested = Some(sr)] :
     sv \in {Absent, Some(<< <<"c">>, <<"d">> >>)},
     sr \in LineTexts}

NextLines ==
  \/ \E body \in LineBodies : CreateWorkOrder(ForOwner(body), 1)
  \/ \E id \in WoIds, body \in LineBodies : UpdateWorkOrder(id, body, 1, TRUE)
  \/ \E id \in WoIds : DeleteWorkOrder(id)

SpecLines == Init /\ [][NextLines]_vars

\* C24: after createWorkOrder or updateWorkOrder with a serviceRequested
\* and no services list, the stored services are the non-blank lines of
\* serviceRequested, trimmed, in order; with a non-empty services list as
\* well, the stored services are that list and the stored serviceRequested
\* is its descriptions joined by newline.
C24_ServicesFromLines ==
  (/\ last.op \in {"createWorkOrder", "updateWorkOrder"}
   /\ last.code \in {200, 201}
   /\ TruthyStr(last.body.serviceRequested))
  => LET doc == workOrders[last.id] IN
     IF Has(last.body.services) /\ Val(last.body.services) /= <<>>
     THEN /\ doc.services = Val(last.body.services)
          /\ doc.serviceRequested = JoinNL(Val(last.body.services))
     ELSE doc.services
            = NonBlankTrimmed(SplitNL(Val(last.body.serviceRequested), <<>>))

-----------------------------------------------------------------------------
(* Re-saves: requests that repeat a mileage and a date, with the clock at   *)
(* day 1, so that a request without a date falls on day 1.                  *)

ResaveDay == 1

ResaveBodies ==
  {[EmptyBody EXCEPT !.currentMileage = m, !.date = d, !.vehicle = v] :
     m \in {Absent, Some(<<"num", 7>>), Some(<<"str", <<"7">>>>)},
     d \in {Absent, Some(1), Some(2)},
     v \in {Absent, Some(2)}}

NextResave ==
  \/ \E body \in ResaveBodies : CreateWorkOrder(ForOwner(body), ResaveDay)
  \/ \E id \in WoIds, body \in ResaveBodies :
       UpdateWorkOrder(id, body, ResaveDay, TRUE)
  \/ \E id \in WoIds : DeleteWorkOrder(id)

SpecResave == Init /\ [][NextResave]_vars

\* The request answered by r recorded or repeated mileage n of day d for
\* work order id.
SavedMileage(r, id, n, d) ==
  /\ \/ r.op = "createWorkOrder" /\ r.code = 201
     \/ r.op = "updateWorkOrder" /\ r.code = 200
  /\ r.id = id
  /\ ParsesNonZero(r.body.currentMileage)
  /\ Val(ParseFloat(Val(r.body.currentMileage))) = n
  /\ OrElse(r.body.date, ResaveDay) = d

\* The step is an updateWorkOrder that repeats the mileage and the date of
\* the request before it, for the same work order.
Resaved ==
  /\ last'.op = "updateWorkOrder"
  /\ last'.code = 200
  /\ ParsesNonZero(last'.body.currentMileage)
  /\ SavedMileage(last, last'.id,
                  Val(ParseFloat(Val(last'.body.currentMileage))),
                  OrElse(last'.body.date, ResaveDay))

\* C25: an updateWorkOrder that repeats the currentMileage and the date of
\* the updateWorkOrder or createWorkOrder before it, for the same work
\* order, adds no mileageHistory entry to a vehicle.
C25_ResaveAddsNoMileageEntry ==
  [][Resaved =>
       \A v \in DOMAIN vehicles :
         vehicles'[v].mileageHistory = vehicles[v].mileageHistory]_vars

-----------------------------------------------------------------------------
(* Technicians: updates that name an appointment with a technician, one     *)
(* without, or none, and submit a technician or none.                       *)

TechnicianBodies ==
  {[EmptyBody EXCEPT !.appointmentId = a, !.assignedTechnician = t] :
     a \in {Absent, Some(1), Some(2), Some(3)},
     t \in {Absent, Some(8), Some(9)}}

NextTechnician ==
  \/ \E body \in TechnicianBodies : CreateWorkOrder(ForOwner(body), 1)
  \/ \E id \in WoIds, body \in TechnicianBodies :
       UpdateWorkOrder(id, body, 1, TRUE)
  \/ \E id \in WoIds : DeleteWorkOrder(id)
  \/ \E id \in WoIds : GetWorkOrder(id)

SpecTechnician == Init /\ [][NextTechnician]_vars

\* The technician of the appointment a request body names, if it names an
\* appointment that exists and has one.
AppointmentTechnician(body) ==
  IF /\ Has(body.appointmentId)
     /\ Val(body.appointmentId) \in DOMAIN Appointments
  THEN Appointments[Val(body.appointmentId)]
  ELSE Absent

\* The body names no appointment, or one that exists and has no technician.
NoAppointmentTechnician(body) ==
  \/ ~Has(body.appointmentId)
  \/ /\ Val(body.appointmentId) \in DOMAIN Appointments
     /\ ~Has(Appointments[Val(body.appointmentId)])

\* C26: after a successful updateWorkOrder whose appointmentId names an
\* appointment with a technician, the stored assignedTechnician is that
\* technician, whatever the request submitted; with no appointmentId, or an
\* appointment without a technician, it is the submitted assignedTechnician
\* or else the one stored before.
C26_AppointmentTechnicianWins ==
  [][(last'.op = "updateWorkOrder" /\ last'.code = 200)
     => LET body == last'.body
            before == workOrders[last'.id].assignedTechnician
            after == workOrders'[last'.id].assignedTechnician
        IN /\ Has(AppointmentTechnician(body))
                => after = AppointmentTechnician(body)
           /\ NoAppointmentTechnician(body)
                => after = (IF Has(body.assignedTechnician)
                            THEN body.assignedTechnician ELSE before)]_vars

\* An update submitted technician 8 with appointment 1, and technician 7 of
\* the appointment is stored.
C26_Witness ==
  /\ last.op = "updateWorkOrder"
  /\ last.code = 200
  /\ last.body.appointmentId = Some(1)
  /\ last.body.assignedTechnician = Some(8)
  /\ workOrders[last.id].assignedTechnician = Some(7)

\* An update without appointment and without technician left the stored
\* technician 8 as it was.
C26_WitnessUnchanged ==
  /\ last.op = "updateWorkOrder"
  /\ last.code = 200
  /\ ~Has(last.body.appointmentId)
  /\ ~Has(last.body.assignedTechnician)
  /\ workOrders[last.id].assignedTechnician = Some(8)

-----------------------------------------------------------------------------
(* deleteCustomer as the customer controller runs it: each await is a step, *)
(* and vehicles are created between the steps of a request in flight.       *)

MaxVehicles == 4

\* Line 76: the customer is looked up.
DeleteFind(id) ==
  /\ DOMAIN pending /= Slots
  /\ IF id \notin DOMAIN customers
     THEN /\ last' = Response("deleteCustomer", id, EmptyBody, 404, "none")
          /\ UNCHANGED pending
     ELSE /\ pending' = Put(pending, FreeSlot,
                 Request("deleteCustomer", id, EmptyBody, "count", Absent, 0))
          /\ UNCHANGED last
  /\ UNCHANGED <<workOrders, vehicles, customers, nextWo, nextCust>>

\* Lines 83-92: the vehicles of the customer are counted.
DeleteCount(r) ==
  LET q == pending[r] IN
  /\ q.op = "deleteCustomer" /\ q.pc = "count"
  /\ IF VehicleCount(q.id) > 0
     THEN Respond(r, 400, "none", <<>>)
     ELSE /\ pending' = [pending EXCEPT ![r].pc = "delete"]
          /\ UNCHANGED last
  /\ UNCHANGED <<workOrders, vehicles, customers, nextWo, nextCust>>

\* Lines 94-99: the customer is deleted and the request answers 204.
DeleteRemove(r) ==
  LET q == pending[r] IN
  /\ q.op = "deleteCustomer" /\ q.pc = "delete"
  /\ customers' = Remove(customers, q.id)
  /\ Respond(r, 204, "none", <<"delete">>)
  /\ UNCHANGED <<workOrders, vehicles, nextWo, nextCust>>

\* VehicleService.createVehicle({...values, customer}): a vehicle of the
\* customer is stored, if the customer is there.
CreateVehicle(c) ==
  /\ Len(vehicles) < MaxVehicles
  /\ IF c \in DOMAIN customers
     THEN /\ vehicles' = Append(vehicles, Vehicle(c, 0))
          /\ last' = Response("createVehicle", Len(vehicles) + 1,
                              [EmptyBody EXCEPT !.customer = Some(c)], 201, "none")
     ELSE /\ last' = Response("createVehicle", NoId,
                              [EmptyBody EXCEPT !.customer = Some(c)], 404, "none")
          /\ UNCHANGED vehicles
  /\ UNCHANGED <<workOrders, customers, nextWo, nextCust, pending>>

NextOrphan ==
  \/ \E p \in {"SMS", "None"} :
       CreateCustomer([EmptyCustomerBody EXCEPT
                         !.communicationPreference = Some(p),
                         !.phone = Some("555")])
  \/ \E id \in CustIds : DeleteFind(id)
  \/ \E r \in DOMAIN pending : DeleteCount(r)
  \/ \E r \in DOMAIN pending : DeleteRemove(r)
  \/ \E c \in CustIds : CreateVehicle(c)

SpecOrphan == Init /\ [][NextOrphan]_vars

\* C27: the customer of every vehicle is a stored customer, whatever the
\* order in which the steps of deleteCustomer and the creation of vehicles
\* run.
C27_NoVehicleOfDeletedCustomer ==
  \A v \in DOMAIN vehicles : vehicles[v].customer \in DOMAIN customers

====
